---- MODULE Spec2Model ----
(***************************************************************************)
(* IntermediateSymbolTable (volatility/framework/symbols/intermed.py).     *)
(*                                                                         *)
(* Python objects that can be shared by reference live in two stores:     *)
(*   theap : template objects (what natives.get_type and                  *)
(*           ReferenceTemplate(...) create, what update_vol mutates),      *)
(*   dheap : mapping objects (the constants dict of every enum of the      *)
(*           parsed document, and every copy made of one).                 *)
(* A value in a template's vol or in the document that is such an object   *)
(* is its address in the store, so aliasing and copying differ.            *)
(***************************************************************************)
EXTENDS Integers, Sequences, FiniteSets, TLC

VARIABLES
  phase,      \* "new" before __init__, then "ready" (it returned) or "failed" (it raised)
  fs,         \* the file system: path -> file
  io,         \* the steps __init__ took: "open", "read", "validate"
  json,       \* self._json
  dheap,      \* the store of mapping objects
  theap,      \* the store of template objects
  natives,    \* self.natives: name -> address of the native table's own template
  overrides,  \* self._overrides
  last,       \* the last call: its arguments, what it raised, what it returned
  result,     \* the ObjectTemplate the caller holds, or None
  hist,       \* history: per name, the class of the latest successful
              \* set_type_class with no del_type_class after it, or "none"
  mutated     \* history: the caller has written to a mapping it was handed

vars == <<phase, fs, io, json, dheap, theap, natives, overrides, last, result, hist, mutated>>

(* ------------------------------ bounds -------------------------------- *)

MaxDepth == 2

MaxCount == 2

MaxBitPos == 2

MaxBitLen == 2

MaxConst == 1

(* ----------------------------- vocabulary ----------------------------- *)

\* constants.BANG
BANG == "!"

\* objects.Struct, the default of get_type_class
Struct == "Struct"

\* classes a caller registers as overrides
Classes == {"ClsA", "ClsB"}

\* type names callers ask for; "Ghost" is in no document
TypeNames == {"Node", "Pair", "Ghost"}

\* the table's own name (the first argument of the constructor)
TableName == "tbl"

Sections == {"user_types", "base_types", "metadata", "symbols", "enums"}

EmptyDict == [k \in {} |-> 0]

None == [none |-> TRUE]

Merge(f, g) == [k \in (DOMAIN f) \cup (DOMAIN g) |-> IF k \in DOMAIN g THEN g[k] ELSE f[k]]

(* --------------------------- native types ----------------------------- *)

\* primitive names of the native table the table is constructed with
Primitives == {"int", "char"}

\* natives.types: the primitives and the parameterized carriers
NativeTypeSeq == <<"int", "char", "array", "pointer", "bitfield", "enum">>

NativeTypes == {NativeTypeSeq[i] : i \in 1..Len(NativeTypeSeq)}

\* the native table's own template of a kind, before any parameter is applied
CanonicalTemplate(kind) == [tkind |-> "ObjectTemplate", type_name |-> kind, vol |-> EmptyDict]

\* the native table after construction: name -> address of its template
NativesInit == [k \in NativeTypes |-> CHOOSE i \in 1..Len(NativeTypeSeq) : NativeTypeSeq[i] = k]

TheapInit == [i \in 1..Len(NativeTypeSeq) |-> CanonicalTemplate(NativeTypeSeq[i])]

\* natives.get_type(type_name): a new template object, a copy of the table's own
natives_get_type(nat, H, type_name) ==
  IF type_name \notin DOMAIN nat
  THEN [exc |-> "SymbolError", addr |-> 0, H |-> H]
  ELSE [exc |-> "", addr |-> Len(H.t) + 1,
        H |-> [H EXCEPT !.t = Append(H.t, H.t[nat[type_name]])]]

\* template.update_vol(**new_args): merges the arguments into the object's vol
update_vol(H, addr, update) ==
  [H EXCEPT !.t[addr].vol = Merge(H.t[addr].vol, update)]

(* ------------------------- _lookup_enum ------------------------------- *)

\* faulty variant: the document's own mapping object is handed out
deepcopy_alias(H, addr) == [addr |-> addr, H |-> H]

\* copy.deepcopy of a mapping object of integers: a new object, equal content
deepcopy(H, addr) ==
  [addr |-> Len(H.d) + 1, H |-> [H EXCEPT !.d = Append(H.d, H.d[addr])]]

lookup_enum(self, H, name) ==
  IF name \notin DOMAIN self.json.enums \/ DOMAIN self.json.enums[name] = {}
  THEN [exc |-> "SymbolSpaceError", update |-> EmptyDict, H |-> H]
  ELSE IF ~({"constants", "base"} \subseteq DOMAIN self.json.enums[name])
  THEN [exc |-> "KeyError", update |-> EmptyDict, H |-> H]
  ELSE LET lookup == self.json.enums[name]
           cp == deepcopy(H, lookup.constants)
           tg == natives_get_type(self.natives, cp.H, lookup.base)
       IN IF tg.exc # ""
          THEN [exc |-> tg.exc, update |-> EmptyDict, H |-> tg.H]
          ELSE [exc |-> "", update |-> [choices |-> cp.addr, target |-> tg.addr], H |-> tg.H]

(* ---------------------- _interdict_to_template ------------------------ *)

Raise(H, e) == [exc |-> e, addr |-> 0, H |-> H, calls |-> 1]

\* faulty variant: the native table's own object is handed on, not a new one
native_template_shared(nat, H, type_name) ==
  [exc |-> "", addr |-> nat[type_name], H |-> H]

\* line 60: the native template the parameters are applied to
native_template(nat, H, type_name) == natives_get_type(nat, H, type_name)

\* line 72: the bit span handed to the bitfield template
bitfield_update(dictionary) ==
  [start_bit |-> dictionary.bit_position, end_bit |-> dictionary.bit_length]

\* faulty variant: the aggregate is expanded where it is referred to: its fields are read
reference_template_inline(self, H, dictionary) ==
  LET n == IF dictionary.name \in DOMAIN self.json.user_types
           THEN Len(self.json.user_types[dictionary.name].fields) ELSE 0
  IN [exc |-> "", addr |-> Len(H.t) + 1,
      H |-> [H EXCEPT !.t = Append(H.t, [tkind |-> "ObjectTemplate",
                                         type_name |-> self.name \o BANG \o dictionary.name,
                                         vol |-> [members |-> n]])],
      calls |-> 1 + n]

\* line 81: a struct or union descriptor becomes a ReferenceTemplate
reference_template(self, H, dictionary) ==
  [exc |-> "", addr |-> Len(H.t) + 1,
   H |-> [H EXCEPT !.t = Append(H.t, [tkind |-> "ReferenceTemplate",
                                      type_name |-> self.name \o BANG \o dictionary.name,
                                      vol |-> EmptyDict])],
   calls |-> 1]

RECURSIVE interdict_to_template(_, _, _)
interdict_to_template(self, H, dictionary) ==
  IF DOMAIN dictionary = {} THEN Raise(H, "SymbolSpaceError")
  ELSE IF "kind" \notin DOMAIN dictionary THEN Raise(H, "KeyError")
  ELSE IF dictionary.kind = "base" /\ "name" \notin DOMAIN dictionary THEN Raise(H, "KeyError")
  ELSE
  LET type_name == IF dictionary.kind = "base" THEN dictionary.name ELSE dictionary.kind IN
  IF type_name \in DOMAIN self.natives
  THEN LET nt == native_template(self.natives, H, type_name) IN
       IF type_name = "array"
       THEN IF {"count", "subtype"} \subseteq DOMAIN dictionary
            THEN LET sub == interdict_to_template(self, nt.H, dictionary.subtype) IN
                 IF sub.exc # "" THEN [sub EXCEPT !.calls = @ + 1]
                 ELSE [exc |-> "", addr |-> nt.addr,
                       H |-> update_vol(sub.H, nt.addr,
                                        [count |-> dictionary.count, target |-> sub.addr]),
                       calls |-> sub.calls + 1]
            ELSE Raise(nt.H, "KeyError")
       ELSE IF type_name = "pointer"
       THEN IF "subtype" \in DOMAIN dictionary
            THEN LET sub == interdict_to_template(self, nt.H, dictionary.subtype) IN
                 IF sub.exc # "" THEN [sub EXCEPT !.calls = @ + 1]
                 ELSE [exc |-> "", addr |-> nt.addr,
                       H |-> update_vol(sub.H, nt.addr, [target |-> sub.addr]),
                       calls |-> sub.calls + 1]
            ELSE Raise(nt.H, "KeyError")
       ELSE IF type_name = "enum"
       THEN IF "name" \in DOMAIN dictionary
            THEN LET en == lookup_enum(self, nt.H, dictionary.name) IN
                 IF en.exc # "" THEN Raise(en.H, en.exc)
                 ELSE [exc |-> "", addr |-> nt.addr,
                       H |-> update_vol(en.H, nt.addr, en.update),
                       calls |-> 1]
            ELSE Raise(nt.H, "KeyError")
       ELSE IF type_name = "bitfield"
       THEN IF {"bit_position", "bit_length", "type"} \subseteq DOMAIN dictionary
            THEN LET sub == interdict_to_template(self, nt.H, dictionary.type) IN
                 IF sub.exc # "" THEN [sub EXCEPT !.calls = @ + 1]
                 ELSE [exc |-> "", addr |-> nt.addr,
                       H |-> update_vol(sub.H, nt.addr,
                                        Merge(bitfield_update(dictionary), [target |-> sub.addr])),
                       calls |-> sub.calls + 1]
            ELSE Raise(nt.H, "KeyError")
       ELSE [exc |-> "", addr |-> nt.addr, H |-> update_vol(nt.H, nt.addr, EmptyDict),
             calls |-> 1]
  ELSE IF dictionary.kind \notin {"struct", "union"} THEN Raise(H, "SymbolSpaceError")
  ELSE IF "name" \notin DOMAIN dictionary THEN Raise(H, "KeyError")
  ELSE reference_template(self, H, dictionary)

(* ----------------------- the override registry ------------------------ *)

\* the types property: self._json.get('user_types', {})
types(self) ==
  IF "user_types" \in DOMAIN self.json THEN DOMAIN self.json.user_types ELSE {}

get_type_class(self, name) ==
  IF name \in DOMAIN self.overrides THEN self.overrides[name] ELSE Struct

\* faulty variant: the name is not checked against types
set_type_class_unchecked(self, name, clazz) ==
  [exc |-> "", overrides |-> Merge(self.overrides, name :> clazz)]

set_type_class(self, name, clazz) ==
  IF name \notin types(self)
  THEN [exc |-> "ValueError", overrides |-> self.overrides]
  ELSE [exc |-> "", overrides |-> Merge(self.overrides, name :> clazz)]

\* faulty variant: the override is left in place
del_type_class_noop(self, name) == [exc |-> "", overrides |-> self.overrides]

del_type_class(self, name) ==
  IF name \in DOMAIN self.overrides
  THEN [exc |-> "", overrides |-> [n \in (DOMAIN self.overrides) \ {name} |-> self.overrides[n]]]
  ELSE [exc |-> "", overrides |-> self.overrides]

(* ------------------------------ get_type ------------------------------ *)

\* faulty variant: the default class is used whatever the registry holds
object_template_default_class(self, type_name, object_class, curdict, members) ==
  [type_name |-> self.name \o BANG \o type_name,
   object_class |-> Struct,
   size |-> curdict.length,
   members |-> members]

\* lines 103-106: the ObjectTemplate get_type returns
object_template(self, type_name, object_class, curdict, members) ==
  [type_name |-> self.name \o BANG \o type_name,
   object_class |-> object_class,
   size |-> curdict.length,
   members |-> members]

\* lines 98-101: the loop over curdict['fields'], in the document's order; a
\* dict of the document is a sequence of <<key, value>> pairs
RECURSIVE resolve_members(_, _, _, _)
resolve_members(self, acc, fields, i) ==
  IF i > Len(fields) \/ acc.exc # "" THEN acc
  ELSE LET member_name == fields[i][1]
           interdict == fields[i][2]
           r == interdict_to_template(self, acc.H, interdict.type)
       IN resolve_members(self,
            IF r.exc # ""
            THEN [acc EXCEPT !.exc = r.exc, !.H = r.H]
            ELSE [exc |-> "", H |-> r.H,
                  members |-> Merge(acc.members, member_name :> <<interdict.offset, r.addr>>),
                  calls |-> Merge(acc.calls, member_name :> r.calls)],
            fields, i + 1)

\* faulty variant: an unknown name yields an empty template instead of an error
unknown_symbol_lenient(self, H, type_name) ==
  [exc |-> "", H |-> H, calls |-> EmptyDict,
   ret |-> [type_name |-> self.name \o BANG \o type_name, object_class |-> Struct,
            size |-> 0, members |-> EmptyDict]]

\* lines 94-95: the name is not a key of user_types
unknown_symbol(self, H, type_name) ==
  [exc |-> "SymbolError", ret |-> None, H |-> H, calls |-> EmptyDict]

get_type(self, H, type_name) ==
  IF type_name \notin DOMAIN self.json.user_types
  THEN unknown_symbol(self, H, type_name)
  ELSE LET curdict == self.json.user_types[type_name]
           m == resolve_members(self, [exc |-> "", H |-> H, members |-> EmptyDict,
                                       calls |-> EmptyDict], curdict.fields, 1)
       IN IF m.exc # ""
          THEN [exc |-> m.exc, ret |-> None, H |-> m.H, calls |-> m.calls]
          ELSE [exc |-> "", H |-> m.H, calls |-> m.calls,
                ret |-> object_template(self, type_name, get_type_class(self, type_name),
                                        curdict, m.members)]

(* ---------------------------- construction ---------------------------- *)

SchemeChars == {"f", "i", "l", "e", "h", "t", "p", "F", "I", "L", "E"}

Lower(c) == CASE c = "F" -> "f" [] c = "I" -> "i" [] c = "L" -> "l" [] c = "E" -> "e"
                 [] OTHER -> c

Find(url, c) == IF \E i \in 1..Len(url) : url[i] = c
                THEN CHOOSE i \in 1..Len(url) : url[i] = c /\ \A j \in 1..(i - 1) : url[j] # c
                ELSE 0

\* urllib.parse.urlparse(url), its scheme and path: the scheme is what stands
\* before the first ':' when that is made of scheme characters only, lowered;
\* a '//' after it opens the network location, which ends at the next '/'
urlparse(url) ==
  LET i == Find(url, ":")
      hasScheme == i > 1 /\ \A j \in 1..(i - 1) : url[j] \in SchemeChars
      scheme == IF hasScheme THEN [j \in 1..(i - 1) |-> Lower(url[j])] ELSE <<>>
      rest == IF hasScheme THEN SubSeq(url, i + 1, Len(url)) ELSE url
      afterLoc == IF Len(rest) >= 2 /\ rest[1] = "/" /\ rest[2] = "/"
                  THEN LET tail == SubSeq(rest, 3, Len(rest))
                           k == Find(tail, "/")
                       IN IF k = 0 THEN <<>> ELSE SubSeq(tail, k, Len(tail))
                  ELSE rest
  IN [scheme |-> scheme, path |-> afterLoc]

\* faulty variant: the last of the five tests is missing
validate_json_four(doc) ==
  IF "user_types" \notin DOMAIN doc
     \/ "base_types" \notin DOMAIN doc
     \/ "metadata" \notin DOMAIN doc
     \/ "symbols" \notin DOMAIN doc
  THEN "SymbolSpaceError" ELSE ""

validate_json(doc) ==
  IF "user_types" \notin DOMAIN doc
     \/ "base_types" \notin DOMAIN doc
     \/ "metadata" \notin DOMAIN doc
     \/ "symbols" \notin DOMAIN doc
     \/ "enums" \notin DOMAIN doc
  THEN "SymbolSpaceError" ELSE ""

\* json.load(fp): the parsed document. Every enum's constants dict is an object
\* of its own, stored in the order the file lists the enums
RECURSIVE load_enums(_, _, _)
load_enums(enums, i, acc) ==
  IF i > Len(enums) THEN acc
  ELSE load_enums(enums, i + 1,
         [d |-> Append(acc.d, enums[i][2].constants),
          enums |-> Merge(acc.enums, enums[i][1] :> [constants |-> Len(acc.d) + 1,
                                                     base |-> enums[i][2].base])])

json_load(text) ==
  IF "enums" \notin DOMAIN text THEN [json |-> text, d |-> <<>>]
  ELSE LET e == load_enums(text.enums, 1, [d |-> <<>>, enums |-> EmptyDict])
       IN [json |-> [text EXCEPT !.enums = e.enums], d |-> e.d]

\* faulty variant: the scheme is never refused
scheme_supported_any(url) == TRUE

\* line 17: the only scheme the constructor goes on with
scheme_supported(url) == url.scheme = <<"f", "i", "l", "e">>

\* __init__(name, idd_filepath, native_types): what it raises, the steps it
\* took on the way, and the fields of the new table
init(files, idd_filepath) ==
  LET url == urlparse(idd_filepath)
      failed(e, steps) == [exc |-> e, io |-> steps, json |-> EmptyDict, d |-> <<>>]
  IN IF ~scheme_supported(url) THEN failed("NotImplementedError", <<>>)
     ELSE IF url.path \notin DOMAIN files THEN failed("FileNotFoundError", <<"open">>)
     ELSE IF files[url.path].kind # "json" THEN failed("JSONDecodeError", <<"open", "read">>)
     ELSE LET parsed == json_load(files[url.path].doc)
              v == validate_json(parsed.json)
          IN IF v # "" THEN failed(v, <<"open", "read", "validate">>)
             ELSE [exc |-> "", io |-> <<"open", "read", "validate">>,
                   json |-> parsed.json, d |-> parsed.d]

(* ----------------------------- documents ------------------------------ *)

Int_ == [kind |-> "base", name |-> "int"]

Array(c, sub) == [kind |-> "array", count |-> c, subtype |-> sub]

Pointer(sub) == [kind |-> "pointer", subtype |-> sub]

Bitfield(p, l, t) == [kind |-> "bitfield", bit_position |-> p, bit_length |-> l, type |-> t]

Enum(e) == [kind |-> "enum", name |-> e]

Aggregate(k, n) == [kind |-> k, name |-> n]

\* descriptors without a nested descriptor; the last five are malformed
Leaves ==
  { Int_, [kind |-> "base", name |-> "char"], [kind |-> "int"], Enum("E1"),
    Aggregate("struct", "Node"), Aggregate("union", "Pair"),
    Enum("E9"), [kind |-> "base", name |-> "nope"], [kind |-> "weird"], EmptyDict,
    [kind |-> "pointer"] }

Wrap(S) ==
  {Array(c, d) : c \in 1..MaxCount, d \in S}
  \cup {Pointer(d) : d \in S}
  \cup {Bitfield(p, l, d) : p \in 0..MaxBitPos, l \in 1..MaxBitLen, d \in S}

RECURSIVE Descriptors(_)
Descriptors(n) == IF n <= 1 THEN Leaves ELSE Leaves \cup Wrap(Descriptors(n - 1))

Field(name, off, d) == <<name, [offset |-> off, type |-> d]>>

\* the enums section of every populated document
DocEnums ==
  << <<"E1", [constants |-> ("A" :> 0 @@ "B" :> 1), base |-> "int"]>>,
     <<"E2", [constants |-> EmptyDict, base |-> "char"]>> >>

\* a document with all five sections: Node with the given fields, and Pair
Doc(fields) ==
  [user_types |->
     ("Node" :> [length |-> 16, fields |-> fields]
      @@ "Pair" :> [length |-> 8,
                    fields |-> <<Field("a", 0, Bitfield(MaxBitPos, MaxBitLen, Int_)),
                                 Field("b", 4, Enum("E2"))>>]),
   base_types |-> EmptyDict, metadata |-> EmptyDict, symbols |-> EmptyDict,
   enums |-> DocEnums]

\* a document holding the sections S only, each of them empty
BareDoc(S) == [s \in S |-> IF s = "enums" THEN <<>> ELSE EmptyDict]

JsonFile(doc) == [kind |-> "json", doc |-> doc]

Garbage == [kind |-> "garbage"]

\* what a second field of Node may be
SecondFields ==
  { <<>>,
    <<Field("f2", 8, Array(MaxCount, Int_))>>,
    <<Field("f2", 8, Pointer(Aggregate("struct", "Node")))>>,
    <<Field("f2", 8, Bitfield(0, MaxBitLen, Int_))>>,
    <<Field("f2", 8, Enum("E1"))>> }

\* the documents of the resolver's specification
FamilyDocs == {Doc(<<Field("f1", 0, d)>> \o f2) : d \in Descriptors(MaxDepth), f2 \in SecondFields}

\* the files of the life cycle's specification
FixtureFiles ==
  {Garbage}
  \cup {JsonFile(BareDoc(S)) : S \in SUBSET Sections}
  \cup {JsonFile(Doc(<<Field("next", 0, Pointer(Aggregate("struct", "Node"))),
                       Field("value", 8, Enum("E1"))>>)),
        JsonFile(Doc(<<Field("lo", 0, Array(1, Int_)),
                       Field("hi", 8, Array(MaxCount + 1, Enum("E1")))>>)),
        JsonFile(Doc(<<Field("ok", 0, Enum("E1")),
                       Field("bad", 8, [kind |-> "weird"])>>))}

PathA == <<"/", "a">>

Locators ==
  { <<"f", "i", "l", "e", ":", "/", "/", "/", "a">>,
    <<"F", "I", "L", "E", ":", "/", "/", "/", "a">>,
    <<"f", "i", "l", "e", ":", "/", "/", "h", "/", "a">>,
    <<"f", "i", "l", "e", ":", "/", "/", "/", "e">>,
    <<"h", "t", "t", "p", ":", "/", "/", "h", "/", "a">>,
    <<"/", "a">> }

(* ------------------------------- state -------------------------------- *)

Self == [name |-> TableName, json |-> json, natives |-> natives, overrides |-> overrides]

NumNatives == Len(NativeTypeSeq)

\* the mapping objects the document owns
NumDocDicts == IF "enums" \in DOMAIN json THEN Cardinality(DOMAIN json.enums) ELSE 0

Call(op, name, clazz, loc, exc, ret, calls) ==
  [op |-> op, name |-> name, clazz |-> clazz, loc |-> loc, exc |-> exc, ret |-> ret,
   calls |-> calls]

\* the stores with the objects of earlier results let go of
CleanHeap == [t |-> SubSeq(theap, 1, NumNatives), d |-> SubSeq(dheap, 1, NumDocDicts)]

NoCall == Call("", "", "", <<>>, "", "", EmptyDict)

Init ==
  /\ phase = "new"
  /\ \E f \in FixtureFiles : fs = (PathA :> f)
  /\ io = <<>>
  /\ json = EmptyDict
  /\ dheap = <<>>
  /\ theap = TheapInit
  /\ natives = NativesInit
  /\ overrides = EmptyDict
  /\ last = NoCall
  /\ result = None
  /\ hist = [n \in TypeNames |-> "none"]
  /\ mutated = FALSE

\* the table right after a successful construction from a document of the family
InitResolve ==
  /\ phase = "ready"
  /\ \E doc \in FamilyDocs :
       /\ fs = (PathA :> JsonFile(doc))
       /\ json = json_load(doc).json
       /\ dheap = json_load(doc).d
  /\ io = <<"open", "read", "validate">>
  /\ theap = TheapInit
  /\ natives = NativesInit
  /\ overrides = EmptyDict
  /\ last = NoCall
  /\ result = None
  /\ hist = [n \in TypeNames |-> "none"]
  /\ mutated = FALSE

(* ------------------------------ actions ------------------------------- *)

Construct(loc) ==
  /\ phase = "new"
  /\ LET r == init(fs, loc) IN
       /\ phase' = IF r.exc = "" THEN "ready" ELSE "failed"
       /\ io' = r.io
       /\ json' = r.json
       /\ dheap' = r.d
       /\ last' = Call("__init__", "", "", loc, r.exc, "", EmptyDict)
  /\ overrides' = EmptyDict
  /\ UNCHANGED <<fs, theap, natives, result, hist, mutated>>

\* get_type(n). The caller lets go of the previous call's templates, so the
\* stores are cut back to the objects the native table and the document own.
GetType(n) ==
  /\ phase = "ready"
  /\ LET r == get_type(Self, CleanHeap, n)
     IN /\ theap' = r.H.t
        /\ dheap' = r.H.d
        /\ result' = r.ret
        /\ last' = Call("get_type", n, "", <<>>, r.exc, "", r.calls)
  /\ UNCHANGED <<phase, fs, io, json, natives, overrides, hist, mutated>>

GetTypeClass(n) ==
  /\ phase = "ready"
  /\ last' = Call("get_type_class", n, "", <<>>, "", get_type_class(Self, n), EmptyDict)
  /\ UNCHANGED <<phase, fs, io, json, dheap, theap, natives, overrides, result, hist, mutated>>

SetTypeClass(n, c) ==
  /\ phase = "ready"
  /\ LET r == set_type_class(Self, n, c) IN
       /\ overrides' = r.overrides
       /\ last' = Call("set_type_class", n, c, <<>>, r.exc, "", EmptyDict)
       /\ hist' = IF r.exc = "" THEN [hist EXCEPT ![n] = c] ELSE hist
  /\ UNCHANGED <<phase, fs, io, json, dheap, theap, natives, result, mutated>>

DelTypeClass(n) ==
  /\ phase = "ready"
  /\ LET r == del_type_class(Self, n) IN
       /\ overrides' = r.overrides
       /\ last' = Call("del_type_class", n, "", <<>>, r.exc, "", EmptyDict)
       /\ hist' = IF r.exc = "" THEN [hist EXCEPT ![n] = "none"] ELSE hist
  /\ UNCHANGED <<phase, fs, io, json, dheap, theap, natives, result, mutated>>

\* the caller writes to, or deletes from, the choices mapping of a template
\* it was handed
MutateChoices(a, label, v) ==
  /\ phase = "ready"
  /\ result # None
  /\ a \in DOMAIN theap
  /\ a > NumNatives
  /\ "choices" \in DOMAIN theap[a].vol
  /\ LET c == theap[a].vol.choices IN
       dheap' = [dheap EXCEPT ![c] =
                   IF v < 0 THEN [k \in (DOMAIN @) \ {label} |-> @[k]]
                   ELSE Merge(@, label :> v)]
  /\ dheap' # dheap
  /\ last' = Call("mutate", "", "", <<>>, "", "", EmptyDict)
  /\ mutated' = TRUE
  /\ UNCHANGED <<phase, fs, io, json, theap, natives, overrides, result, hist>>

Labels == {"A", "B"}

Next ==
  \/ \E loc \in Locators : Construct(loc)
  \/ \E n \in TypeNames : GetType(n)
  \/ \E n \in TypeNames : GetTypeClass(n)
  \/ \E n \in TypeNames, c \in Classes : SetTypeClass(n, c)
  \/ \E n \in TypeNames : DelTypeClass(n)
  \/ \E a \in 1..Len(theap), label \in Labels, v \in (0 - 1)..MaxConst : MutateChoices(a, label, v)

Spec == Init /\ [][Next]_vars

NextResolve == \E n \in TypeNames : GetType(n)

SpecResolve == InitResolve /\ [][NextResolve]_vars

(* ------------------------ what the claims speak of -------------------- *)

\* the document the table was constructed from, as the file holds it
FileDoc == fs[PathA].doc

FieldsOf(n) == json.user_types[n].fields

\* the name a descriptor resolves under (line 54-56)
EffectiveName(d) == IF d.kind = "base" THEN d.name ELSE d.kind

\* the nested descriptor of a descriptor, if it has one
HasSub(d) == "kind" \in DOMAIN d /\ \/ d.kind \in {"array", "pointer"} /\ "subtype" \in DOMAIN d
                                    \/ d.kind = "bitfield" /\ "type" \in DOMAIN d

Sub(d) == IF d.kind = "bitfield" THEN d.type ELSE d.subtype

RECURSIVE DescDepth(_)
DescDepth(d) == IF HasSub(d) THEN 1 + DescDepth(Sub(d)) ELSE 1

\* a descriptor of one of the shapes the document schema lists
RECURSIVE WellFormed(_, _)
WellFormed(doc, d) ==
  /\ "kind" \in DOMAIN d
  /\ CASE d.kind = "base" -> DOMAIN d = {"kind", "name"} /\ d.name \in Primitives
       [] d.kind \in Primitives -> DOMAIN d = {"kind"}
       [] d.kind = "array" -> /\ DOMAIN d = {"kind", "count", "subtype"}
                              /\ d.count \in Nat
                              /\ WellFormed(doc, d.subtype)
       [] d.kind = "pointer" -> DOMAIN d = {"kind", "subtype"} /\ WellFormed(doc, d.subtype)
       [] d.kind = "bitfield" -> /\ DOMAIN d = {"kind", "bit_position", "bit_length", "type"}
                                 /\ WellFormed(doc, d.type)
       [] d.kind = "enum" -> /\ DOMAIN d = {"kind", "name"}
                             /\ d.name \in DOMAIN doc.enums
                             /\ doc.enums[d.name].base \in Primitives
       [] d.kind \in {"struct", "union"} -> DOMAIN d = {"kind", "name"}
       [] OTHER -> FALSE

ValidDocument(doc) ==
  /\ Sections \subseteq DOMAIN doc
  /\ \A n \in DOMAIN doc.user_types :
       \A i \in 1..Len(doc.user_types[n].fields) :
         WellFormed(doc, doc.user_types[n].fields[i][2].type)

\* the last call was get_type on a name of types
GotType == phase = "ready" /\ last.op = "get_type" /\ last.name \in types(Self)

(* ------------------------------- C1 ----------------------------------- *)

\* C1: on a valid document, get_type of a name in types succeeds; the template
\* has the document's length as size, the table name joined to the name by "!"
\* as type name, the class get_type_class gives, and exactly the definition's
\* field names as members, each with its field's offset.
C1_GetTypeBuildsTemplate ==
  (GotType /\ ValidDocument(json)) =>
    /\ last.exc = ""
    /\ result # None
    /\ result.size = FileDoc.user_types[last.name].length
    /\ result.type_name = TableName \o "!" \o last.name
    /\ result.object_class = get_type_class(Self, last.name)
    /\ result.object_class = (IF hist[last.name] = "none" THEN "Struct" ELSE hist[last.name])
    /\ DOMAIN result.members = {FieldsOf(last.name)[i][1] : i \in 1..Len(FieldsOf(last.name))}
    /\ \A i \in 1..Len(FieldsOf(last.name)) :
         result.members[FieldsOf(last.name)[i][1]][1] = FieldsOf(last.name)[i][2].offset

C1_Witness ==
  /\ GotType /\ ValidDocument(json)
  /\ last.name = "Node"
  /\ result # None
  /\ result.object_class = "ClsB"
  /\ result.size = 16
  /\ DOMAIN result.members = {"lo", "hi"}
  /\ result.members["hi"][1] = 8

(* --------------------- templates against descriptors ------------------ *)

FieldName(n, i) == FieldsOf(n)[i][1]

FieldType(n, i) == FieldsOf(n)[i][2].type

\* the template get_type returned for the i-th field of the type it was asked
MemberAddr(i) == result.members[FieldName(last.name, i)][2]

\* the constants of enum e as the file lists them
OrigConstants(e) ==
  FileDoc.enums[CHOOSE i \in 1..Len(FileDoc.enums) : FileDoc.enums[i][1] = e][2].constants

ReferenceTo(n) ==
  [tkind |-> "ReferenceTemplate", type_name |-> TableName \o "!" \o n, vol |-> EmptyDict]

\* every struct or union descriptor inside d stands in the template as a
\* reference that names the type and holds nothing else
RECURSIVE RefsDeferred(_, _, _)
RefsDeferred(th, a, d) ==
  IF d.kind \in {"struct", "union"} THEN th[a] = ReferenceTo(d.name)
  ELSE IF HasSub(d) THEN RefsDeferred(th, th[a].vol.target, Sub(d))
  ELSE TRUE

\* the template at a is an object of its own that carries the parameters of d,
\* level by level (the end of a bit span is left to C10)
RECURSIVE OwnParams(_, _, _, _)
OwnParams(th, dh, a, d) ==
  /\ a > NumNatives
  /\ IF d.kind \in {"struct", "union"} THEN th[a] = ReferenceTo(d.name)
     ELSE /\ th[a].tkind = "ObjectTemplate"
          /\ th[a].type_name = EffectiveName(d)
          /\ CASE EffectiveName(d) = "array" ->
                    /\ DOMAIN th[a].vol = {"count", "target"}
                    /\ th[a].vol.count = d.count
                    /\ OwnParams(th, dh, th[a].vol.target, d.subtype)
               [] EffectiveName(d) = "pointer" ->
                    /\ DOMAIN th[a].vol = {"target"}
                    /\ OwnParams(th, dh, th[a].vol.target, d.subtype)
               [] EffectiveName(d) = "bitfield" ->
                    /\ DOMAIN th[a].vol = {"start_bit", "end_bit", "target"}
                    /\ th[a].vol.start_bit = d.bit_position
                    /\ OwnParams(th, dh, th[a].vol.target, d.type)
               [] EffectiveName(d) = "enum" ->
                    /\ DOMAIN th[a].vol = {"choices", "target"}
                    /\ dh[th[a].vol.choices] = OrigConstants(d.name)
                    /\ th[th[a].vol.target] = CanonicalTemplate(FileDoc.enums[
                         CHOOSE i \in 1..Len(FileDoc.enums) : FileDoc.enums[i][1] = d.name][2].base)
               [] OTHER -> th[a].vol = EmptyDict

\* the innermost descriptor of d, and the template that stands for it
RECURSIVE LeafDesc(_)
LeafDesc(d) == IF HasSub(d) THEN LeafDesc(Sub(d)) ELSE d

RECURSIVE LeafAddr(_, _, _)
LeafAddr(th, a, d) == IF HasSub(d) THEN LeafAddr(th, th[a].vol.target, Sub(d)) ELSE a

\* every template reached from a, a itself included
RECURSIVE Reach(_, _, _)
Reach(th, a, d) ==
  IF HasSub(d) THEN {a} \cup Reach(th, th[a].vol.target, Sub(d))
  ELSE IF d.kind = "enum" THEN {a, th[a].vol.target}
  ELSE {a}

(* ------------------------------- C2 ----------------------------------- *)

\* C2: a struct or union descriptor becomes a ReferenceTemplate naming the
\* table-qualified type and nothing of the aggregate is read; get_type ends
\* (with a template or an error) for every document, a self-referring one
\* included, and resolving one field takes no more resolver calls than its
\* descriptor is deep.
C2_AggregatesDeferred ==
  /\ phase = "ready" =>
       \A n \in TypeNames :
         LET r == get_type(Self, CleanHeap, n) IN (r.exc = "") = (r.ret # None)
  /\ GotType =>
       /\ (last.exc = "") = (result # None)
       /\ \A i \in 1..Len(FieldsOf(last.name)) :
            /\ FieldName(last.name, i) \in DOMAIN last.calls =>
                 last.calls[FieldName(last.name, i)] <= DescDepth(FieldType(last.name, i))
            /\ last.exc = "" => RefsDeferred(theap, MemberAddr(i), FieldType(last.name, i))

C2_Witness ==
  /\ GotType /\ last.name = "Node" /\ last.exc = ""
  /\ FieldType("Node", 1) = Pointer(Aggregate("struct", "Node"))
  /\ Len(FieldsOf("Node")) = 2
  /\ FieldType("Node", 2) = Pointer(Aggregate("struct", "Node"))
  /\ theap[theap[MemberAddr(1)].vol.target] = ReferenceTo("Node")
  /\ last.calls["f1"] = 2

(* ------------------------------- C3 ----------------------------------- *)

\* C3: set_type_class on a name that is not in types raises ValueError and
\* leaves the registry as it was; so every name with an override is in types.
C3_SetUnknownRejected ==
  /\ [](phase = "ready" => DOMAIN overrides \subseteq types(Self))
  /\ [][(last'.op = "set_type_class" /\ last'.name \notin types(Self))
          => (last'.exc = "ValueError" /\ overrides' = overrides)]_vars

C3_Witness ==
  /\ last.op = "set_type_class" /\ last.name = "Ghost" /\ last.exc = "ValueError"
  /\ DOMAIN overrides = {"Node", "Pair"}

(* ------------------------------- C4 ----------------------------------- *)

\* what the calls so far leave as the class of n
Expected(n) == IF hist[n] = "none" THEN "Struct" ELSE hist[n]

\* C4: get_type_class(n) is the class of the latest successful set_type_class
\* of n with no del_type_class of n after it, and objects.Struct otherwise;
\* del_type_class of a name without an override succeeds and changes nothing;
\* a set or a delete of one name leaves every other name's class alone.
C4_OverridesFollowCalls ==
  /\ [](phase = "ready" =>
          /\ \A n \in TypeNames : get_type_class(Self, n) = Expected(n)
          /\ last.op = "get_type_class" => last.ret = Expected(last.name)
          /\ last.op = "del_type_class" => last.exc = "")
  /\ [][/\ (last'.op = "del_type_class" /\ last'.name \notin DOMAIN overrides)
             => overrides' = overrides
        /\ (last'.op \in {"set_type_class", "del_type_class"})
             => \A n \in TypeNames \ {last'.name} :
                  get_type_class(Self', n) = get_type_class(Self, n)]_vars

C4_Witness ==
  /\ last.op = "get_type_class" /\ last.name = "Node" /\ last.ret = "Struct"
  /\ overrides = [Pair |-> "ClsB"]
  /\ result # None /\ result.type_name = "tbl!Node" /\ result.object_class = "ClsA"

(* ------------------------------- C5 ----------------------------------- *)

\* C5: the choices of a resolved enum equal the enum's constants in the
\* document and are an object of their own: whatever a caller writes to a
\* mapping it was handed, the document's enums stay as the file lists them and
\* the next resolution gives the listed constants again.
C5_EnumChoicesIndependent ==
  (phase = "ready" /\ "enums" \in DOMAIN json) =>
    /\ \A e \in DOMAIN json.enums : dheap[json.enums[e].constants] = OrigConstants(e)
    /\ (GotType /\ last.exc = "") =>
         \A i \in 1..Len(FieldsOf(last.name)) :
           LET d == LeafDesc(FieldType(last.name, i))
               a == LeafAddr(theap, MemberAddr(i), FieldType(last.name, i))
           IN d.kind = "enum" =>
                /\ "choices" \in DOMAIN theap[a].vol
                /\ theap[a].vol.choices > NumDocDicts
                /\ dheap[theap[a].vol.choices] = OrigConstants(d.name)

C5_Witness ==
  /\ mutated
  /\ GotType /\ last.exc = "" /\ last.name = "Node"
  /\ FieldType("Node", 2) = Enum("E1")
  /\ dheap[theap[MemberAddr(2)].vol.choices] = ("A" :> 0 @@ "B" :> 1)
  /\ theap[MemberAddr(2)].vol.choices # json.enums["E1"].constants

(* ------------------------------- C6 ----------------------------------- *)

FileLocators ==
  { <<"f", "i", "l", "e", ":", "/", "/", "/", "a">>,
    <<"F", "I", "L", "E", ":", "/", "/", "/", "a">>,
    <<"f", "i", "l", "e", ":", "/", "/", "h", "/", "a">> }

\* the constructor was called with a file locator of a file that parses
ParsedFromFile ==
  last.op = "__init__" /\ last.loc \in FileLocators /\ fs[PathA].kind = "json"

\* C6: construction from a local file whose content parses succeeds exactly
\* when the document has all five sections, empty or not; with one missing it
\* raises SymbolSpaceError and there is no table.
C6_SectionsDecideConstruction ==
  /\ phase = "ready" => Sections \subseteq DOMAIN json
  /\ ParsedFromFile =>
       /\ (last.exc = "") = (Sections \subseteq DOMAIN FileDoc)
       /\ last.exc = "" => (phase = "ready" /\ DOMAIN json = DOMAIN FileDoc)
       /\ last.exc # "" =>
            (last.exc = "SymbolSpaceError" /\ phase = "failed" /\ json = EmptyDict)

C6_Witness ==
  /\ ParsedFromFile
  /\ phase = "ready"
  /\ FileDoc = BareDoc(Sections)
  /\ json.user_types = EmptyDict

(* ------------------------------- C7 ----------------------------------- *)

\* C7: get_type of a name that is not in types raises SymbolError and returns
\* nothing; the document and the registry are as before, and every later
\* get_type or get_type_class gives what it would have given without the call.
C7_UnknownNameRejected ==
  [][(last'.op = "get_type" /\ last'.name \notin types(Self)) =>
       /\ last'.exc = "SymbolError"
       /\ result' = None
       /\ json' = json
       /\ overrides' = overrides
       /\ CleanHeap' = CleanHeap
       /\ \A n \in TypeNames :
            /\ get_type(Self', CleanHeap', n) = get_type(Self, CleanHeap, n)
            /\ get_type_class(Self', n) = get_type_class(Self, n)]_vars

C7_Witness ==
  /\ phase = "ready"
  /\ last.op = "get_type" /\ last.name = "Ghost" /\ last.exc = "SymbolError"
  /\ result = None
  /\ DOMAIN overrides = {"Node"}
  /\ mutated

(* ------------------------------- C8 ----------------------------------- *)

NonFileLocators ==
  { <<"h", "t", "t", "p", ":", "/", "/", "h", "/", "a">>,
    <<"/", "a">> }

\* C8: construction with a locator whose scheme is not 'file' raises
\* NotImplementedError before any file is opened or read and before the
\* document is validated.
C8_NonFileSchemeRejected ==
  (last.op = "__init__" /\ last.loc \in NonFileLocators) =>
    /\ last.exc = "NotImplementedError"
    /\ io = <<>>
    /\ phase = "failed"
    /\ json = EmptyDict

C8_Witness ==
  /\ last.op = "__init__"
  /\ last.loc = <<"h", "t", "t", "p", ":", "/", "/", "h", "/", "a">>
  /\ last.exc = "NotImplementedError"
  /\ fs[PathA].kind = "json"
  /\ io = <<>>

(* ------------------------------- C9 ----------------------------------- *)

RECURSIVE BitSpans(_, _, _)
BitSpans(th, a, d) ==
  /\ d.kind = "bitfield" =>
       /\ th[a].vol.start_bit = d.bit_position
       /\ th[a].vol.end_bit \in {d.bit_position + d.bit_length - 1,
                                 d.bit_position + d.bit_length}
  /\ HasSub(d) => BitSpans(th, th[a].vol.target, Sub(d))

\* C10: a bitfield descriptor {bit_position: P, bit_length: L, type: T} gives
\* the native bitfield template with start bit P, end bit where a span of L
\* bits from P ends, and target the template of T.
C10_BitfieldSpan ==
  (GotType /\ last.exc = "") =>
    \A i \in 1..Len(FieldsOf(last.name)) :
      /\ BitSpans(theap, MemberAddr(i), FieldType(last.name, i))
      /\ OwnParams(theap, dheap, MemberAddr(i), FieldType(last.name, i))

====
